---- MODULE Spec2Model ----
(***************************************************************************)
(* Connection orchestration and session guard of                           *)
(* apps/studio/src/lib/db/client.ts: connect, disconnect, checkIsConnected *)
(* and the session operations bound on DBConnection.                       *)
(*                                                                         *)
(* One server descriptor (config, sshTunnel, db registry) and the database *)
(* descriptors of DBs.  connect is an async function: it runs up to its    *)
(* first await in one step (ConnectStart), and each continuation after an  *)
(* await is one step (TunnelReturn, DriverReturn).  disconnect and the     *)
(* session operations modelled here are synchronous: one step each.        *)
(*                                                                         *)
(* A client is referenced by one descriptor only and is unreachable once   *)
(* that reference is cleared or replaced, so a client is identified by the *)
(* descriptor it is bound to.  A tunnel carries the number of the          *)
(* connect() call that created it.                                         *)
(***************************************************************************)
EXTENDS Integers, FiniteSets, Sequences, TLC

\* ------------------------------------------------------------------ bounds
\* connect() calls issued in one behaviour.
MaxConnects == 2
\* Invocation counts of a client's disconnect() saturate here.
DiscCap == 2
\* Longest column list a driver's listTableColumns resolves with.
MaxColumns == 2

\* ------------------------------------------------------------- the domain
DBs == {"a", "b"}
Calls == 1..MaxConnects
\* database.connection = null
NoClient == 0
\* database.connection = the client the driver constructor resolved with
Client == 1
\* server.sshTunnel = null / undefined
NoTunnel == 0
\* keys of the clients map (Driver Resolver)
Registered == {"pg"}
\* values of server.config.client: null, a registered key, an unknown key
EngineIds == {"null", "pg", "nosuch"}
\* methods of DatabaseClient that the session probes for before calling them
OptionalMethods == {"listMaterializedViewColumns"}
\* session operations of the shape `checkIsConnected(...); return
\* database.connection?.<op>(...)`
GuardedOps == {"listTables", "query", "executeQuery"}
\* session operations of the shape `return database.connection?.<op>(...)`
UnguardedOps == {"truncateAllTables", "setTableDescription", "versionString"}
SessionOps ==
  GuardedOps \cup UnguardedOps \cup {"listMaterializedViewColumns", "getTableDeleteScript"}
\* session operations whose method not every engine's client has; each is
\* named as the method of DatabaseClient it calls
OptionalOps ==
  {"listMaterializedViews", "listMaterializedViewColumns", "duplicateTable",
   "getMaterializedViewCreateScript"}

\* column names of the tables, and the schema argument ('' : not given)
ColumnNames == {"id", "name"}
Schemas == {"", "public"}
TableName == "t"
\* what listTableColumns can resolve with: column records, in table order
ColumnLists == UNION {[1..n -> [columnName : ColumnNames]] : n \in 0..MaxColumns}

VARIABLES
  config,      \* server.config: ssh configured?, client (engine identifier);
               \* methods: the optional methods the engine's clients have
  connecting,  \* database.connecting, per database
  connection,  \* database.connection, per database: NoClient or Client
  disc,        \* per database: invocations of disconnect() on its client
  sshTunnel,   \* server.sshTunnel: NoTunnel or a tunnel
  local,       \* server.config.localHost/localPort: the tunnel they point to
  db,          \* server.db: the registered database names
  tunnels,     \* the tunnels the tunnel manager has created
  shut,        \* tunnels whose connection.shutdown() was invoked
  calls,       \* the connect() calls: where each is suspended, and on what
  script,      \* the getTableInsertScript() call: where it is suspended
  last         \* what the last step did and returned to its caller

vars == <<config, connecting, connection, disc, sshTunnel, local, db, tunnels, shut,
          calls, script, last>>

\* The objects connect/disconnect work on, as one value.
Heap ==
  [connecting |-> connecting, connection |-> connection, disc |-> disc,
   sshTunnel |-> sshTunnel, local |-> local, db |-> db, tunnels |-> tunnels,
   shut |-> shut]

Commit(h) ==
  /\ connecting' = h.connecting
  /\ connection' = h.connection
  /\ disc' = h.disc
  /\ sshTunnel' = h.sshTunnel
  /\ local' = h.local
  /\ db' = h.db
  /\ tunnels' = h.tunnels
  /\ shut' = h.shut

Bump(n, cap) == IF n < cap THEN n + 1 ELSE cap

\* Whether a collaborator's method raises is its own choice, each time it is
\* invoked; nothing is chosen when it is not invoked.
Raises(invoked) == IF invoked THEN BOOLEAN ELSE {FALSE}

\* A connect() call not issued yet.  A call's record holds its position (pc:
\* "new", suspended at "tunnel" or "driver", "done"), its database, the
\* endpoint its driver constructor was handed (ep), whether that endpoint
\* could be connected to then (live), and whether the caller issued it as the
\* retry of a connect that the driver had failed.
NewCall == [pc |-> "new", db |-> "a", ep |-> NoTunnel, live |-> TRUE, retry |-> FALSE]

\* A connect() call that has returned to its caller.
DoneCall == [NewCall EXCEPT !.pc = "done"]

\* No getTableInsertScript() call is suspended.  A suspended one (pc
\* "columns": awaiting listTableColumns) holds its database and schema argument.
NoScriptCall == [pc |-> "idle", db |-> "a", schema |-> ""]

\* An identifier as text: the quote character around it and the name; '' is
\* Blank.
Blank == [quote |-> "", id |-> ""]

\* The arguments and the result of a script builder, when the step is not one.
NoArgs == [schema |-> "", columns |-> <<>>]
NoScript == [into |-> <<>>, columns |-> <<>>, values |-> <<>>]

\* What a step reports: the operation, its database, how it ended, what raised
\* inside connect's body (cause), which error reached the caller (err), the
\* client whose method the step invoked (a session operation: the method it
\* delegates to; disconnect and connect's catch block: the client's
\* disconnect(); NoClient: none) and the value a session operation returned, whether the database host accepted the driver's
\* handshake, and whether the call was a retry; for a script builder, the
\* schema argument and the columns the driver resolved with (args) and the
\* script built; for a step that invoked a client's disconnect() in
\* disconnect, how many invocations that client has then received (nth).
Event(op, d, outcome, cause, err, accepted, retry) ==
  [op |-> op, db |-> d, outcome |-> outcome, cause |-> cause, err |-> err,
   client |-> NoClient, value |-> "none", accepted |-> accepted, retry |-> retry,
   args |-> NoArgs, script |-> NoScript, nth |-> 0]

NoEvent == Event("none", "a", "none", "none", "none", FALSE, FALSE)

InitWith(methods) ==
  /\ config \in [ssh : BOOLEAN, client : EngineIds, methods : methods]
  /\ connecting = [d \in DBs |-> FALSE]
  /\ connection = [d \in DBs |-> NoClient]
  /\ disc = [d \in DBs |-> 0]
  /\ sshTunnel = NoTunnel
  /\ local = NoTunnel
  /\ db = DBs
  /\ tunnels = {}
  /\ shut = {}
  /\ calls = [c \in Calls |-> NewCall]
  /\ script = NoScriptCall
  /\ last = NoEvent

Init == InitWith({{}})

\* ------------------------------------------------------------- disconnect
\* disconnect deleting the server's whole registry (`server.db = {}`) where
\* the code deletes the one entry `server.db[database.database]`.
disconnectClearingRegistry(h, d, cThrows, tThrows) ==
  LET h1 == [h EXCEPT !.connecting[d] = FALSE]
      bound == h1.connection[d] # NoClient
      h2 == IF bound THEN [h1 EXCEPT !.disc[d] = Bump(@, DiscCap)] ELSE h1
      h3 == IF bound THEN [h2 EXCEPT !.connection[d] = NoClient, !.disc[d] = 0] ELSE h2
      t == h3.sshTunnel
      h4 == IF t # NoTunnel THEN [h3 EXCEPT !.shut = @ \cup {t}] ELSE h3
      h5 == [h4 EXCEPT !.db = {}]
      nth == IF bound THEN h2.disc[d] ELSE 0
  IN  IF bound /\ cThrows THEN [h |-> h2, threw |-> TRUE, invoked |-> bound, nth |-> nth]
      ELSE IF t # NoTunnel /\ tThrows
      THEN [h |-> h4, threw |-> TRUE, invoked |-> bound, nth |-> nth]
      ELSE [h |-> h5, threw |-> FALSE, invoked |-> bound, nth |-> nth]

\* disconnect(server, database) on heap h.  cThrows / tThrows: whether the
\* client's disconnect() and the tunnel's shutdown() raise when invoked.
\* Yields the heap it leaves, whether it threw, whether it invoked the bound
\* client's disconnect(), and how many invocations of disconnect() that
\* client has then received (nth; 0 when none was made here).
disconnect(h, d, cThrows, tThrows) ==
  LET h1 == [h EXCEPT !.connecting[d] = FALSE]
      bound == h1.connection[d] # NoClient
      h2 == IF bound THEN [h1 EXCEPT !.disc[d] = Bump(@, DiscCap)] ELSE h1
      h3 == IF bound THEN [h2 EXCEPT !.connection[d] = NoClient, !.disc[d] = 0] ELSE h2
      t == h3.sshTunnel
      h4 == IF t # NoTunnel THEN [h3 EXCEPT !.shut = @ \cup {t}] ELSE h3
      h5 == [h4 EXCEPT !.db = @ \ {d}]
      nth == IF bound THEN h2.disc[d] ELSE 0
  IN  IF bound /\ cThrows THEN [h |-> h2, threw |-> TRUE, invoked |-> bound, nth |-> nth]
      ELSE IF t # NoTunnel /\ tThrows
      THEN [h |-> h4, threw |-> TRUE, invoked |-> bound, nth |-> nth]
      ELSE [h |-> h5, threw |-> FALSE, invoked |-> bound, nth |-> nth]

Disconnect(d) ==
  \E cThrows \in Raises(connection[d] # NoClient), tThrows \in Raises(sshTunnel # NoTunnel) :
    LET r == disconnect(Heap, d, cThrows, tThrows) IN
    /\ Commit(r.h)
    /\ last' = [Event("disconnect", d, IF r.threw THEN "error" ELSE "ok", "none",
                      IF r.threw THEN "cleanup" ELSE "none", FALSE, FALSE)
                  EXCEPT !.client = IF r.invoked THEN connection[d] ELSE NoClient,
                         !.nth = r.nth]
    /\ UNCHANGED <<config, calls, script>>

\* --------------------------------------------------------------- connect
\* The guard before the try block: a connect is already in progress.
connectGuard(h, d) == h.connecting[d]

\* A rejected connect() that also runs the finally block (the guard moved into
\* the try block).
connectRejectedInTry(h, d) == [h EXCEPT !.connecting[d] = FALSE]

\* The heap a connect() rejected by the guard leaves: the throw is outside the
\* try block, so neither catch nor finally runs.
connectRejected(h, d) == h

\* The try block up to its first await point: sets connecting, then invokes
\* disconnect() of a client still bound (the reference is kept).  sThrows:
\* whether that disconnect() raises.
connectEnter(h, d, sThrows) ==
  LET h1 == [h EXCEPT !.connecting[d] = TRUE]
      bound == h1.connection[d] # NoClient
      h2 == IF bound THEN [h1 EXCEPT !.disc[d] = Bump(@, DiscCap)] ELSE h1
  IN  [h |-> h2, threw |-> bound /\ sThrows]

\* `server.config.ssh && !server.sshTunnel`: a tunnel has to be created.
needsTunnel(h) == config.ssh /\ h.sshTunnel = NoTunnel

\* After `await connectTunnel(...)` resolved with the new tunnel t.
attachTunnel(h, t) == [h EXCEPT !.tunnels = @ \cup {t}, !.sshTunnel = t, !.local = t]

\* `if (server.config.client) { driver = clients[...]; await driver(...) }`:
\* "skip" when client is null, "throw" when clients has no such key (calling
\* undefined raises), "await" when the driver constructor is invoked.
driverStep ==
  IF config.client = "null" THEN "skip"
  ELSE IF config.client \notin Registered THEN "throw"
  ELSE "await"

\* Whether the endpoint the driver is handed can be connected to: without SSH
\* the server itself, with SSH the forwarded port of a tunnel not shut down.
endpointLive(h) == ~config.ssh \/ (h.local # NoTunnel /\ h.local \notin h.shut)

\* `database.connection = connection` after the driver resolved with a client.
bindClient(h, d) == [h EXCEPT !.connection[d] = Client, !.disc[d] = 0]

\* The catch block: disconnect(server, database), then rethrow.  When
\* disconnect itself throws, that error replaces the one caught.
connectCatch(h, d, cThrows, tThrows) ==
  LET r == disconnect(h, d, cThrows, tThrows)
  IN  [h |-> r.h, err |-> IF r.threw THEN "cleanup" ELSE "original", invoked |-> r.invoked,
       nth |-> r.nth]

\* A connect() without its finally block.
connectFinallySkipped(h, d) == h

\* The finally block.
connectFinally(h, d) == [h EXCEPT !.connecting[d] = FALSE]

\* connect() leaves through catch and finally with an error raised by `cause`.
Fail(c, d, h, cause, accepted, retry) ==
  \E cThrows \in Raises(h.connection[d] # NoClient), tThrows \in Raises(h.sshTunnel # NoTunnel) :
    LET r == connectCatch(h, d, cThrows, tThrows) IN
    /\ Commit(connectFinally(r.h, d))
    /\ calls' = [calls EXCEPT ![c] = DoneCall]
    /\ last' = [Event("connect", d, "error", cause, r.err, accepted, retry)
                  EXCEPT !.client = IF r.invoked THEN h.connection[d] ELSE NoClient,
                         !.nth = r.nth]

\* connect() returns normally through finally.
Succeed(c, d, h, accepted, retry) ==
  /\ Commit(connectFinally(h, d))
  /\ calls' = [calls EXCEPT ![c] = DoneCall]
  /\ last' = Event("connect", d, "ok", "none", "none", accepted, retry)

\* connect() suspends at an await: pc says which.
Suspend(c, h, rec, pc) ==
  /\ Commit(h)
  /\ calls' = [calls EXCEPT ![c] = [rec EXCEPT !.pc = pc]]
  /\ last' = Event("connect", rec.db, "pending", "none", "none", FALSE, rec.retry)

\* connect() from the driver step on, on heap h, for call c with record rec.
DriverPhase(c, h, rec) ==
  CASE driverStep = "skip" -> Succeed(c, rec.db, h, FALSE, rec.retry)
    [] driverStep = "throw" -> Fail(c, rec.db, h, "resolve", FALSE, rec.retry)
    [] OTHER -> Suspend(c, h, [rec EXCEPT !.ep = h.local, !.live = endpointLive(h)], "driver")

\* The caller's retry: the step before returned a connect on d that failed
\* because the driver raised.
IsRetry(d) ==
  last.op = "connect" /\ last.db = d /\ last.outcome = "error" /\ last.cause = "driver"

\* A connect(server, database) call, up to its first await or its return.
ConnectStart(c, d) ==
  /\ calls[c].pc = "new"
  /\ \A c2 \in Calls : c2 < c => calls[c2].pc # "new"
  /\ UNCHANGED <<config, script>>
  /\ LET rec == [NewCall EXCEPT !.db = d, !.retry = IsRetry(d)] IN
     IF connectGuard(Heap, d)
     THEN /\ Commit(connectRejected(Heap, d))
          /\ calls' = [calls EXCEPT ![c] = DoneCall]
          /\ last' = Event("connect", d, "error", "guard", "inProgress", FALSE, rec.retry)
     ELSE \E sThrows \in Raises(connection[d] # NoClient) :
            LET e == connectEnter(Heap, d, sThrows) IN
            IF e.threw THEN Fail(c, d, e.h, "stale", FALSE, rec.retry)
            ELSE IF needsTunnel(e.h) THEN Suspend(c, e.h, rec, "tunnel")
            ELSE DriverPhase(c, e.h, rec)

\* The continuation after `await connectTunnel(server.config)`: the tunnel
\* manager resolved with a new tunnel (ok) or rejected.
TunnelReturn(c) ==
  /\ calls[c].pc = "tunnel"
  /\ UNCHANGED <<config, script>>
  /\ \E ok \in BOOLEAN :
       IF ok
       THEN DriverPhase(c, attachTunnel(Heap, c), calls[c])
       ELSE Fail(c, calls[c].db, Heap, "tunnel", FALSE, calls[c].retry)

\* The continuation after `await driver(server, database)`.  accept: whether
\* the database host accepts the handshake; the driver resolves with a new
\* client when it does and the endpoint it was handed could be connected to.
DriverReturn(c) ==
  /\ calls[c].pc = "driver"
  /\ UNCHANGED <<config, script>>
  /\ \E accept \in BOOLEAN :
       LET d == calls[c].db IN
       IF accept /\ calls[c].live
       THEN Succeed(c, d, bindClient(Heap, d), accept, calls[c].retry)
       ELSE Fail(c, d, Heap, "driver", accept, calls[c].retry)

Next ==
  \/ \E c \in Calls, d \in DBs : ConnectStart(c, d)
  \/ \E c \in Calls : TunnelReturn(c)
  \/ \E c \in Calls : DriverReturn(c)
  \/ \E d \in DBs : Disconnect(d)

Spec == Init /\ [][Next]_vars

\* connect and disconnect on one database descriptor.
OneDb == "a"

OneDbNext ==
  \/ \E c \in Calls : ConnectStart(c, OneDb)
  \/ \E c \in Calls : TunnelReturn(c)
  \/ \E c \in Calls : DriverReturn(c)
  \/ Disconnect(OneDb)

\* The tunnel manager and the driver constructors settle every promise that
\* connect() awaits, so each suspended connect() is resumed.
FairSpec ==
  /\ Init /\ [][OneDbNext]_vars
  /\ \A c \in Calls : WF_vars(TunnelReturn(c)) /\ WF_vars(DriverReturn(c))

\* checkIsConnected testing only that a client is bound.
checkIsConnectedBoundOnly(h, d) == h.connection[d] # NoClient

\* ------------------------------------------------------- the session
\* checkIsConnected: TRUE when it returns, FALSE when it throws 'There is no
\* connection available.'
checkIsConnected(h, d) == ~(h.connecting[d] \/ h.connection[d] = NoClient)

\* What a session operation hands its caller.
Result(outcome, client, value) == [outcome |-> outcome, client |-> client, value |-> value]

NoConnection == Result("noConnection", NoClient, "none")

\* A delegation wrapped in a try/catch that swallows what the client raises.
delegateSwallowing(h, d, mThrows) ==
  IF h.connection[d] = NoClient THEN Result("returned", NoClient, "undefined")
  ELSE IF mThrows THEN Result("returned", h.connection[d], "undefined")
  ELSE Result("returned", h.connection[d], "client")

\* `database.connection?.<op>(...)`: the client's method is invoked and its
\* result returned, or what it raises propagates (mThrows); undefined when no
\* client is bound.
delegate(h, d, mThrows) ==
  IF h.connection[d] = NoClient THEN Result("returned", NoClient, "undefined")
  ELSE IF mThrows THEN Result("raised", h.connection[d], "none")
  ELSE Result("returned", h.connection[d], "client")

\* listTables, query, executeQuery, ...: guarded, then delegated.
guardedOp(h, d, mThrows) ==
  IF checkIsConnected(h, d) THEN delegate(h, d, mThrows) ELSE NoConnection

\* truncateAllTables, setTableDescription, versionString: delegated, with no
\* call of checkIsConnected.
unguardedOp(h, d, mThrows) == delegate(h, d, mThrows)

\* `database.connection[method](...)` and `database.connection?.method(...)`
\* with no test for the method: calling an absent method raises a TypeError.
callMethod(h, d, method, mThrows) ==
  IF h.connection[d] # NoClient /\ method \notin config.methods
  THEN Result("typeError", NoClient, "none")
  ELSE delegate(h, d, mThrows)

\* listMaterializedViewColumns without the presence test: calling the absent
\* method raises.
listMaterializedViewColumnsUnprobed(h, d, mThrows) ==
  IF ~checkIsConnected(h, d) THEN NoConnection
  ELSE callMethod(h, d, "listMaterializedViewColumns", mThrows)

\* listMaterializedViewColumns: guarded; delegated when the client has the
\* method, else resolved with [].
listMaterializedViewColumns(h, d, mThrows) ==
  IF ~checkIsConnected(h, d) THEN NoConnection
  ELSE IF h.connection[d] # NoClient /\ "listMaterializedViewColumns" \in config.methods
  THEN delegate(h, d, mThrows)
  ELSE Result("returned", NoClient, "empty")

\* listMaterializedViews: guarded, then
\* `database.connection?.listMaterializedViews(filter) || []`.
listMaterializedViews(h, d, mThrows) ==
  IF ~checkIsConnected(h, d) THEN NoConnection
  ELSE callMethod(h, d, "listMaterializedViews", mThrows)

\* duplicateTable = bindAsync('duplicateTable', ...): guarded, then
\* `database.connection[functionName](...args)`.
duplicateTable(h, d, mThrows) ==
  IF ~checkIsConnected(h, d) THEN NoConnection
  ELSE callMethod(h, d, "duplicateTable", mThrows)

\* getMaterializedViewCreateScript: guarded; null unless the method is a
\* function of the client.
getMaterializedViewCreateScript(h, d, mThrows) ==
  IF ~checkIsConnected(h, d) THEN NoConnection
  ELSE IF h.connection[d] # NoClient /\ "getMaterializedViewCreateScript" \in config.methods
  THEN delegate(h, d, mThrows)
  ELSE Result("returned", NoClient, "null")

\* wrap(database, identifier): the client's wrapIdentifier output (what it
\* raises propagates), '' when no client is bound.
wrap(h, d, mThrows) ==
  IF h.connection[d] = NoClient THEN Result("returned", NoClient, "")
  ELSE IF mThrows THEN Result("raised", h.connection[d], "none")
  ELSE Result("returned", h.connection[d], "wrapped")

\* getTableDeleteScript: no call of checkIsConnected; the script is built
\* from wrap's output for the table name.
getTableDeleteScript(h, d, mThrows) ==
  LET w == wrap(h, d, mThrows)
  IN  IF w.outcome = "raised" THEN w
      ELSE Result("returned", w.client, IF w.value = "" THEN "scriptNoIdentifiers" ELSE "script")

sessionOp(h, d, op, mThrows) ==
  CASE op \in GuardedOps -> guardedOp(h, d, mThrows)
    [] op \in UnguardedOps -> unguardedOp(h, d, mThrows)
    [] op = "listMaterializedViewColumns" -> listMaterializedViewColumns(h, d, mThrows)
    [] op = "listMaterializedViews" -> listMaterializedViews(h, d, mThrows)
    [] op = "duplicateTable" -> duplicateTable(h, d, mThrows)
    [] op = "getMaterializedViewCreateScript" -> getMaterializedViewCreateScript(h, d, mThrows)
    [] op = "getTableDeleteScript" -> getTableDeleteScript(h, d, mThrows)

\* One call of a session operation on the session of database d.  mThrows:
\* whether the client's method raises if the operation invokes it; the event
\* records that it did (cause "client").  No field of the server or of the
\* database descriptor is assigned.
SessionOp(d, op) ==
  \E mThrows \in Raises(connection[d] # NoClient) :
    LET r == sessionOp(Heap, d, op, mThrows) IN
    /\ last' = [NoEvent EXCEPT !.op = op, !.db = d, !.outcome = r.outcome,
                               !.client = r.client, !.value = r.value,
                               !.cause = IF mThrows /\ r.client # NoClient
                                         THEN "client" ELSE "none"]
    /\ UNCHANGED <<config, connecting, connection, disc, sshTunnel, local, db, tunnels,
                   shut, calls, script>>

\* The session of one database descriptor, under every interleaving of
\* connect and disconnect on that descriptor.
SessionDb == "a"

SessionInit == InitWith(SUBSET OptionalMethods)

SessionNext ==
  \/ \E c \in Calls : ConnectStart(c, SessionDb)
  \/ \E c \in Calls : TunnelReturn(c)
  \/ \E c \in Calls : DriverReturn(c)
  \/ Disconnect(SessionDb)
  \/ \E op \in SessionOps : SessionOp(SessionDb, op)

SessionSpec == SessionInit /\ [][SessionNext]_vars

\* The step that led here left connect() or disconnect() with an error that
\* the bound client's disconnect() raised: connect's stale-client cleanup
\* raised, or disconnect was left before it cleared the reference.
ClientDisconnectRaised ==
  /\ last.op \in {"connect", "disconnect"}
  /\ \/ last.cause = "stale"
     \/ last.err = "cleanup" /\ connection[last.db] # NoClient

\* connect, disconnect and the guarded operations on one database descriptor,
\* with clients whose disconnect() does not raise.
QuietNext ==
  \/ (\E c \in Calls : ConnectStart(c, OneDb)) /\ ~ClientDisconnectRaised'
  \/ (\E c \in Calls : TunnelReturn(c)) /\ ~ClientDisconnectRaised'
  \/ (\E c \in Calls : DriverReturn(c)) /\ ~ClientDisconnectRaised'
  \/ Disconnect(OneDb) /\ ~ClientDisconnectRaised'
  \/ \E op \in GuardedOps : SessionOp(OneDb, op)

QuietSpec == Init /\ [][QuietNext]_vars

\* ----------------------------------------------------- the script builder
\* The driver's wrapIdentifier: the name between the engine's quote characters.
wrapIdentifier(x) == [quote |-> "\"", id |-> x]

\* wrap(database, identifier) for one identifier:
\* `database.connection?.wrapIdentifier(identifier) || ''`.
wrapOne(h, d, x) ==
  IF h.connection[d] = NoClient THEN Blank
  ELSE LET w == wrapIdentifier(x) IN IF w = Blank THEN Blank ELSE w

\* wrap(database, identifier) for an array: wrapped item by item, in order.
wrapAll(h, d, xs) == [i \in 1..Len(xs) |-> wrapOne(h, d, xs[i])]

\* resolveSchema: the wrapped schema (followed by '.') when one is given.
resolveSchema(h, d, schema) == IF schema # "" THEN <<wrapOne(h, d, schema)>> ELSE <<>>

\* Array.prototype.fill: every element replaced by v.
fill(xs, v) == [i \in 1..Len(xs) |-> v]

\* `columns.map((column) => column.columnName)`
columnNamesOf(columns) == [i \in 1..Len(columns) |-> columns[i].columnName]

\* getTableInsertScript with the placeholders filled in before the column
\* list is wrapped (fill works in place on columnNames).
getTableInsertScriptFillFirst(h, d, columns, schema) ==
  LET columnNames == columnNamesOf(columns)
      schemaSelection == resolveSchema(h, d, schema)
      filled == fill(columnNames, "?")
  IN  [into |-> schemaSelection \o <<wrapOne(h, d, TableName)>>,
       columns |-> wrapAll(h, d, filled),
       values |-> filled]

\* getTableInsertScript after `await getTableColumnNames(...)` resolved: the
\* INSERT INTO target (schema selection, table), the column list and the
\* VALUES list, built on the heap as it is then.
getTableInsertScript(h, d, columns, schema) ==
  LET columnNames == columnNamesOf(columns)
      schemaSelection == resolveSchema(h, d, schema)
  IN  [into |-> schemaSelection \o <<wrapOne(h, d, TableName)>>,
       columns |-> wrapAll(h, d, columnNames),
       values |-> fill(columnNames, "?")]

\* A getTableInsertScript(table, schema) call up to its await:
\* getTableColumnNames calls checkIsConnected and then awaits the client's
\* listTableColumns.
InsertScriptStart(d, schema) ==
  /\ script.pc = "idle"
  /\ IF checkIsConnected(Heap, d)
     THEN /\ script' = [pc |-> "columns", db |-> d, schema |-> schema]
          /\ last' = [NoEvent EXCEPT !.op = "getTableInsertScript", !.db = d,
                                     !.outcome = "pending", !.client = connection[d]]
     ELSE /\ script' = script
          /\ last' = [NoEvent EXCEPT !.op = "getTableInsertScript", !.db = d,
                                     !.outcome = "noConnection"]
  /\ UNCHANGED <<config, connecting, connection, disc, sshTunnel, local, db, tunnels,
                 shut, calls>>

\* The continuation after `await database.connection?.listTableColumns(...)`:
\* it rejected (the error propagates) or resolved with a column list, from
\* which the script is built.
InsertScriptReturn(d) ==
  /\ script.pc = "columns" /\ script.db = d
  /\ script' = NoScriptCall
  /\ \E rejects \in BOOLEAN, columns \in ColumnLists :
       last' = IF rejects
               THEN [NoEvent EXCEPT !.op = "getTableInsertScript", !.db = d,
                                    !.outcome = "raised", !.cause = "client"]
               ELSE [NoEvent EXCEPT !.op = "getTableInsertScript", !.db = d,
                                    !.outcome = "returned",
                                    !.args = [schema |-> script.schema, columns |-> columns],
                                    !.script = getTableInsertScript(Heap, d, columns,
                                                                    script.schema)]
  /\ UNCHANGED <<config, connecting, connection, disc, sshTunnel, local, db, tunnels,
                 shut, calls>>

\* getTableInsertScript on the session of one database descriptor, under
\* every interleaving of connect and disconnect on that descriptor.
ScriptNext ==
  \/ \E c \in Calls : ConnectStart(c, SessionDb)
  \/ \E c \in Calls : TunnelReturn(c)
  \/ \E c \in Calls : DriverReturn(c)
  \/ Disconnect(SessionDb)
  \/ \E schema \in Schemas : InsertScriptStart(SessionDb, schema)
  \/ InsertScriptReturn(SessionDb)

ScriptSpec == Init /\ [][ScriptNext]_vars

\* The optional operations on the session of one database descriptor, for
\* clients having any subset of the optional methods.
OptionalInit == InitWith(SUBSET OptionalOps)

OptionalNext ==
  \/ \E c \in Calls : ConnectStart(c, SessionDb)
  \/ \E c \in Calls : TunnelReturn(c)
  \/ \E c \in Calls : DriverReturn(c)
  \/ Disconnect(SessionDb)
  \/ \E op \in OptionalOps : SessionOp(SessionDb, op)

OptionalSpec == OptionalInit /\ [][OptionalNext]_vars

\* Two connect() calls for two different databases of the server, issued in
\* any interleaving, and nothing else called on it.
TwoConnectsNext ==
  \/ ConnectStart(1, "a")
  \/ ConnectStart(2, "b")
  \/ \E c \in Calls : TunnelReturn(c)
  \/ \E c \in Calls : DriverReturn(c)

TwoConnectsSpec == Init /\ [][TwoConnectsNext]_vars

\* ---------------------------------------------------------------- claims
InFlight(d) == {c \in Calls : calls[c].pc \in {"tunnel", "driver"} /\ calls[c].db = d}

\* This step issues a connect() call on d.
Issued(d) ==
  /\ \E c \in Calls : calls[c].pc = "new" /\ calls'[c].pc # "new"
  /\ last'.op = "connect" /\ last'.db = d

\* C1: every session operation called while connecting is set or no client
\* is bound fails with the "no connection available" error, and invokes no
\* method of a client.
C1_EveryOperationGuarded ==
  (last.op \in SessionOps /\ ~checkIsConnected(Heap, last.db))
    => (last.outcome = "noConnection" /\ last.client = NoClient)

\* C2: a connect() issued while connecting is set fails with the "already in
\* progress" error, suspends at no await (neither the tunnel manager nor a
\* driver constructor is invoked) and leaves the connecting flags, the bound
\* clients, the tunnel and the registry as they were.
C2_ConnectInProgressRejected ==
  [][\A d \in DBs :
       (Issued(d) /\ connecting[d]) =>
          /\ last'.outcome = "error" /\ last'.err = "inProgress"
          /\ \A c \in Calls : calls'[c].pc \in {"tunnel", "driver"} => calls'[c] = calls[c]
          /\ UNCHANGED <<connecting, connection, disc, sshTunnel, local, db, tunnels, shut>>
    ]_vars

\* C2's case: a connect() was rejected while another one on the same
\* database is suspended, whose connecting flag is still set.
C2_Witness ==
  /\ last.op = "connect" /\ last.err = "inProgress"
  /\ connecting[last.db] /\ InFlight(last.db) # {}

\* C3: at most one connect() per database is past the guard and has not
\* returned.
C3_OneConnectInFlight == \A d \in DBs : Cardinality(InFlight(d)) <= 1

\* C4: after a connect() failed because the driver constructor raised (and
\* that error reached the caller), no client is bound and connecting is
\* false; and the caller's retry, when the database host accepts the driver's
\* handshake, succeeds and binds a client, with or without SSH.
C4_FailedConnectRetryable ==
  /\ (last.op = "connect" /\ last.cause = "driver" /\ last.err = "original")
       => (connection[last.db] = NoClient /\ ~connecting[last.db])
  /\ (last.op = "connect" /\ last.retry /\ last.accepted)
       => (last.outcome = "ok" /\ connection[last.db] # NoClient /\ ~connecting[last.db])

\* C5: when connect() leaves with an error raised inside its body, every
\* tunnel created for the server has been shut down, no client is bound to
\* the descriptor, its registry entry is gone, and the error is the one that
\* was raised in the body.
C5_FailedConnectDisconnectsFully ==
  (last.op = "connect" /\ last.outcome = "error" /\ last.cause # "guard")
    => /\ tunnels \subseteq shut
       /\ connection[last.db] = NoClient
       /\ last.db \notin db
       /\ last.err = "original"

\* C6: a disconnect() that directly follows a disconnect() on the same
\* database raises no error and leaves the connecting flag, the bound client,
\* the tunnel and the registry as the first one left them.
C6_DisconnectIdempotent ==
  [][(last.op = "disconnect" /\ last'.op = "disconnect" /\ last'.db = last.db)
       => /\ last'.outcome = "ok"
          /\ UNCHANGED <<connecting, connection, sshTunnel, db>>
    ]_vars

\* C7: disconnect() never throws and always completes its cleanup: connecting
\* cleared, the client reference cleared, the server's tunnel shut down, the
\* registry entry removed.
C7_DisconnectNeverThrows ==
  last.op = "disconnect"
    => /\ last.outcome = "ok"
       /\ ~connecting[last.db]
       /\ connection[last.db] = NoClient
       /\ (sshTunnel # NoTunnel => sshTunnel \in shut)
       /\ last.db \notin db

\* C8: with SSH configured, two connect() calls for two different databases
\* share one tunnel: counting the tunnels created and the connectTunnel()
\* invocations still awaited there is never more than one, and each driver
\* constructor is handed the endpoint of that one tunnel.
C8_OneTunnelForTwoConnects ==
  config.ssh
    => /\ Cardinality(tunnels) + Cardinality({c \in Calls : calls[c].pc = "tunnel"}) <= 1
       /\ \A c \in Calls : calls[c].pc = "driver" => tunnels = {calls[c].ep}

\* C9: on a server whose engine identifier is not a key of the Driver
\* Resolver, no connect() reaches the tunnel manager or a driver constructor,
\* and every connect() past the guard fails with the resolution error.
C9_UnknownEngineFailsBeforeNetwork ==
  config.client \notin Registered
    => /\ \A c \in Calls : calls[c].pc \notin {"tunnel", "driver"}
       /\ tunnels = {}
       /\ (last.op = "connect" /\ last.cause # "guard")
            => (last.outcome = "error" /\ last.cause = "resolve")

\* C10: listMaterializedViewColumns on a connected session whose client lacks
\* the method resolves to the empty sequence, not to an error.
C10_MissingMethodYieldsEmpty ==
  ( /\ last.op = "listMaterializedViewColumns"
    /\ checkIsConnected(Heap, last.db)
    /\ "listMaterializedViewColumns" \notin config.methods )
    => (last.outcome = "returned" /\ last.value = "empty" /\ last.client = NoClient)

\* C10's case: the call was made on a connected session whose client lacks
\* the method.
C10_Witness ==
  /\ last.op = "listMaterializedViewColumns"
  /\ checkIsConnected(Heap, last.db)
  /\ "listMaterializedViewColumns" \notin config.methods

\* C11: on a connected session, an optional operation whose method the client
\* lacks returns a neutral default ([] or null) and raises nothing.
C11_OptionalOpsDegrade ==
  ( /\ last.op \in OptionalOps
    /\ checkIsConnected(Heap, last.db)
    /\ last.op \notin config.methods )
    => (last.outcome = "returned" /\ last.value \in {"empty", "null"})

\* C12: disconnect() on a connected descriptor clears connecting, invokes the
\* bound client's disconnect() and clears the reference, shuts the server's
\* tunnel down if there is one, and removes this database's entry, and no
\* other, from the registry.
C12_DisconnectTearsDown ==
  [][\A d \in DBs :
       (last'.op = "disconnect" /\ last'.db = d /\ checkIsConnected(Heap, d))
         => /\ ~connecting'[d]
            /\ last'.client = connection[d]
            /\ connection'[d] = NoClient
            /\ (sshTunnel # NoTunnel => sshTunnel \in shut')
            /\ db' = db \ {d}
    ]_vars

\* C13: when the client's method raises inside a session operation, the
\* caller gets that error and the step leaves the connecting flags, the bound
\* clients, the tunnel and the registry unchanged; on a connected session, a
\* guarded operation called next is delegated to the same client.
C13_FailedOperationKeepsSession ==
  [][/\ last'.cause = "client"
          => /\ last'.outcome = "raised"
             /\ UNCHANGED <<connecting, connection, disc, sshTunnel, local, db, tunnels, shut>>
     /\ ( /\ last.cause = "client" /\ checkIsConnected(Heap, last.db)
          /\ last'.op \in GuardedOps /\ last'.db = last.db )
          => /\ last'.outcome \in {"returned", "raised"}
             /\ last'.client = last.client
    ]_vars

\* C13's case: a guarded operation was called right after one in which the
\* client raised, and it reached the client.
C13_Witness ==
  /\ last.op \in GuardedOps /\ last.cause = "client"
  /\ last.client = connection[last.db] /\ last.client # NoClient

\* C14: a script getTableInsertScript builds while a client is bound has one
\* "?" per column the driver resolved with, its column list is the driver's
\* wrapIdentifier output for each column name in the driver's order, and its
\* target is the wrapped schema (when given) and the wrapped table name.
C14_InsertScriptMatchesColumns ==
  ( /\ last.op = "getTableInsertScript" /\ last.outcome = "returned"
    /\ connection[last.db] # NoClient )
    => LET names == columnNamesOf(last.args.columns)
           n == Len(names)
       IN  /\ Len(last.script.values) = n
           /\ \A i \in 1..n : last.script.values[i] = "?"
           /\ Len(last.script.columns) = n
           /\ \A i \in 1..n : last.script.columns[i] = wrapIdentifier(names[i])
           /\ last.script.into =
                IF last.args.schema # ""
                THEN <<wrapIdentifier(last.args.schema), wrapIdentifier(TableName)>>
                ELSE <<wrapIdentifier(TableName)>>

\* C14's case: a script was built for two different columns and a schema on
\* a connected session.
C14_Witness ==
  /\ last.op = "getTableInsertScript" /\ last.outcome = "returned"
  /\ checkIsConnected(Heap, last.db)
  /\ last.args.schema # ""
  /\ Len(last.args.columns) = 2
  /\ last.args.columns[1] # last.args.columns[2]

\* C15: when a connect() returns without error, connecting is false and a
\* client is bound to the descriptor, and a guarded session operation called
\* next passes the connected check and is delegated to that client.
C15_ConnectedAfterConnect ==
  [][/\ (last'.op = "connect" /\ last'.outcome = "ok")
          => (~connecting'[last'.db] /\ connection'[last'.db] # NoClient)
     /\ ( /\ last.op = "connect" /\ last.outcome = "ok"
          /\ last'.op \in GuardedOps /\ last'.db = last.db )
          => /\ last'.outcome \in {"returned", "raised"}
             /\ last'.client = connection[last.db]
             /\ last'.client # NoClient
    ]_vars

\* C16: the server's tunnel reference, when set, is a tunnel whose shutdown
\* has not been invoked; and on an SSH server every driver constructor is
\* handed the endpoint of a tunnel that is not shut down.
C16_TunnelReferenceActive ==
  /\ sshTunnel # NoTunnel => sshTunnel \notin shut
  /\ \A c \in Calls : (config.ssh /\ calls[c].pc = "driver") => calls[c].live

\* C17: no connect() stays suspended at an await for ever (again and again
\* every connect() past the guard has returned); when a connect() returns,
\* connecting of its database is false; and connecting is never true on a
\* database on which no connect() is in flight.
C17_ConnectingEventuallyCleared ==
  /\ []<>(\A c \in Calls : calls[c].pc \notin {"tunnel", "driver"})
  /\ [](\A d \in DBs : InFlight(d) = {} => ~connecting[d])
  /\ [][\A c \in Calls :
          (calls[c].pc \in {"tunnel", "driver"} /\ calls'[c].pc = "done")
            => ~connecting'[calls[c].db]
       ]_vars

\* C17's case: a connect() that was suspended at the driver's await has
\* returned, successfully, and connecting is false.
C17_Witness ==
  /\ last.op = "connect" /\ last.outcome = "ok" /\ last.accepted
  /\ \E c \in Calls : calls[c].pc = "done"
  /\ ~connecting[last.db]

\* C18: a connect() that suspends has set connecting and has invoked
\* disconnect() of a client that was bound; it awaits the tunnel manager only
\* when SSH is configured and the server has no tunnel; when it invokes the
\* driver constructor on an SSH server, the server has a tunnel and the local
\* host/port are that tunnel's; and a client reference is cleared or replaced
\* only after that client's disconnect() was invoked.
C18_ConnectStepOrder ==
  [][/\ \A c \in Calls :
          /\ (calls[c].pc = "new" /\ calls'[c].pc \in {"tunnel", "driver"})
               => /\ connecting'[calls'[c].db]
                  /\ connection[calls'[c].db] # NoClient => disc'[calls'[c].db] >= 1
          /\ (calls[c].pc = "new" /\ calls'[c].pc = "tunnel")
               => (config.ssh /\ sshTunnel = NoTunnel)
          /\ (calls[c].pc # "driver" /\ calls'[c].pc = "driver" /\ config.ssh)
               => /\ sshTunnel' # NoTunnel
                  /\ local' = sshTunnel'
                  /\ calls'[c].ep = local'
     /\ \A d \in DBs :
          /\ (connection[d] # NoClient /\ connection'[d] = NoClient)
               => (last'.db = d /\ last'.client = connection[d])
          /\ ( /\ connection[d] # NoClient
               /\ last'.op = "connect" /\ last'.db = d /\ last'.outcome = "ok" /\ last'.accepted )
               => disc[d] >= 1
    ]_vars

\* C19: with two databases connected through the tunnel of an SSH server,
\* disconnect() of one shuts the server's tunnel down, and the other
\* database's client stays bound and its session still passes the connected
\* check.
C19_DisconnectShutsSharedTunnel ==
  [][\A d, e \in DBs :
       ( /\ d # e /\ config.ssh /\ sshTunnel # NoTunnel
         /\ checkIsConnected(Heap, d) /\ checkIsConnected(Heap, e)
         /\ last'.op = "disconnect" /\ last'.db = d )
         => /\ sshTunnel \in shut'
            /\ connection'[e] = connection[e]
            /\ ~connecting'[e] /\ connection'[e] # NoClient
    ]_vars

\* C20: when a disconnect() was issued on a database while a connect() on it
\* was suspended, and that connect() then finishes so that none is in flight,
\* no client is bound to the descriptor.
C20_NoClientAfterDisconnect ==
  [][\A d \in DBs :
       ( /\ last.op = "disconnect" /\ last.db = d /\ last.outcome = "ok"
         /\ InFlight(d) # {}
         /\ \A c \in Calls : calls'[c].pc \in {"tunnel", "driver"} => calls'[c].db # d )
         => connection'[d] = NoClient
    ]_vars

\* C21: with clients whose disconnect() does not raise, a guarded session
\* operation is never delegated to a client whose disconnect() has been
\* invoked.
C21_NoOperationOnDisconnectedClient ==
  (last.op \in GuardedOps /\ last.client # NoClient) => disc[last.db] = 0

\* C21's case: a guarded operation was delegated to the client of a session
\* that has been disconnected and connected again.
C21_Witness ==
  /\ last.op \in GuardedOps /\ last.client # NoClient
  /\ last.db \notin db
  /\ \A c \in Calls : calls[c].pc = "done"

\* C22: the disconnect() of a client is invoked at most once, whatever
\* sequence of connect() and disconnect() calls is made.
C22_ClientDisconnectedOnce ==
  /\ \A d \in DBs : disc[d] <= 1
  /\ last.nth <= 1

\* C23: a getTableInsertScript call that passed the connected check and
\* returns a script returns one in which every identifier (schema, table and
\* each column) is the driver's wrapIdentifier output for its name and none is
\* empty, whatever disconnect() ran while the call awaited the column list.
C23_ScriptIdentifiersWrapped ==
  (last.op = "getTableInsertScript" /\ last.outcome = "returned")
    => LET names == columnNamesOf(last.args.columns)
           target == IF last.args.schema # "" THEN <<last.args.schema, TableName>>
                     ELSE <<TableName>>
       IN  /\ Len(last.script.into) = Len(target)
           /\ \A i \in 1..Len(target) :
                /\ last.script.into[i] # Blank
                /\ last.script.into[i] = wrapIdentifier(target[i])
           /\ Len(last.script.columns) = Len(names)
           /\ \A i \in 1..Len(names) :
                /\ last.script.columns[i] # Blank
                /\ last.script.columns[i] = wrapIdentifier(names[i])

\* C24: a step of connect() or disconnect() on one database leaves the
\* connecting flag, the bound client (and the disconnect() invocations it has
\* received) and the registry entry of every other database of the server
\* as they were.
C24_OtherDatabasesUntouched ==
  [][\A d \in DBs : \A e \in DBs \ {d} :
       (last'.op \in {"connect", "disconnect"} /\ last'.db = d)
         => /\ connecting'[e] = connecting[e]
            /\ connection'[e] = connection[e]
            /\ disc'[e] = disc[e]
            /\ (e \in db') = (e \in db)]_vars

\* C24's case: a disconnect() of one connected database returned while
\* another database of the server is connected and registered.
C24_Witness ==
  /\ last.op = "disconnect" /\ last.outcome = "ok" /\ last.client # NoClient
  /\ \E e \in DBs \ {last.db} : connection[e] # NoClient /\ e \in db

====
